---------------------------- MODULE Spec2Model ----------------------------
(***************************************************************************)
(* Model of stereoscope's image source detection (package image:          *)
(* detectSource, detectSourceFromPath, DetermineImagePullSource,          *)
(* ParseSourceScheme) and of the docker daemon provider (package docker:  *)
(* DaemonImageProvider.Provide, pull, trackSaveProgress).                 *)
(*                                                                         *)
(* Strings are sequences of tokens: a token stands for a run of           *)
(* characters that the code never looks inside, and the separator ":",    *)
(* the tilde "~" and the slash "/" are tokens of their own.               *)
(***************************************************************************)
EXTENDS Integers, Sequences, FiniteSets, TLC

\* Longest user input, in tokens.
MaxLen == 3

\* ------------------------------------------------------------------------
\* package image: sources and the scheme vocabulary
\* ------------------------------------------------------------------------

UnknownSource == "UnknownSource"
DockerTarballSource == "DockerTarball"
DockerDaemonSource == "DockerDaemon"
OciDirectorySource == "OciDirectory"
OciTarballSource == "OciTarball"
OciRegistrySource == "OciRegistry"

SchemeSeparator == ":"

\* The nil error.
NoErr == "nil"

\* Tokens user inputs are drawn from: scheme words (one of them in upper
\* case), a word that is no scheme, and the three special characters.
Tokens == {"docker-archive", "OCI-DIR", "docker", "registry", "bogus", ":", "~", "/"}

Inputs == UNION {[1..n -> Tokens] : n \in 0..MaxLen}

\* strings.ToLower, token by token.
ToLowerToken(t) ==
    CASE t = "OCI-DIR" -> "oci-dir"
      [] OTHER -> t

ToLower(s) == [i \in 1..Len(s) |-> ToLowerToken(s[i])]

ParseSourceScheme(source) ==
    LET lowered == ToLower(source) IN
    CASE lowered = <<"docker-archive">> -> DockerTarballSource
      [] lowered = <<"docker">> -> DockerDaemonSource
      [] lowered = <<"oci-dir">> -> OciDirectorySource
      [] lowered = <<"oci-archive">> -> OciTarballSource
      [] lowered = <<"oci-registry">> -> OciRegistrySource
      [] lowered = <<"registry">> -> OciRegistrySource
      [] OTHER -> UnknownSource

\* Index of the first separator of s, 0 when there is none.
IndexOf(s, sep) ==
    IF \E i \in 1..Len(s) : s[i] = sep
    THEN CHOOSE i \in 1..Len(s) : s[i] = sep /\ \A j \in 1..(i - 1) : s[j] # sep
    ELSE 0

\* strings.SplitN(s, sep, 2)
SplitN2(s, sep) ==
    LET i == IndexOf(s, sep) IN
    IF i = 0 THEN <<s>>
    ELSE <<SubSeq(s, 1, i - 1), SubSeq(s, i + 1, Len(s))>>

HasPrefix(s, prefix) ==
    /\ Len(prefix) <= Len(s)
    /\ SubSeq(s, 1, Len(prefix)) = prefix

\* strings.TrimPrefix
TrimPrefix(s, prefix) ==
    IF HasPrefix(s, prefix) THEN SubSeq(s, Len(prefix) + 1, Len(s)) ELSE s

\* homedir.Expand: a path that does not start with "~" is returned as it
\* is; "~user" cannot be expanded; otherwise the home directory, when it
\* can be resolved, replaces the tilde.
Expand(path, homeOK) ==
    IF Len(path) = 0 \/ path[1] # "~" THEN [path |-> path, err |-> NoErr]
    ELSE IF Len(path) > 1 /\ path[2] # "/" THEN [path |-> <<>>, err |-> "expand"]
    ELSE IF ~homeOK THEN [path |-> <<>>, err |-> "expand"]
    ELSE [path |-> <<"$HOME">> \o Tail(path), err |-> NoErr]

\* ------------------------------------------------------------------------
\* The environment of one detection: what is at the probed path, whether
\* the home directory resolves, whether the reference parser accepts the
\* input, and how the docker daemon answers.
\* ------------------------------------------------------------------------

LookupOutcomes == {"found", "notfound", "err"}

NoArchive == [manifest |-> "notfound", layout |-> "notfound", seekErrAt |-> 0]

FsNode(kind, child, probe, open, archive) ==
    [kind |-> kind, child |-> child, probe |-> probe, open |-> open, archive |-> archive]

\* What the filesystem holds at the path: nothing, something stat cannot
\* read, a directory (with or without a child oci-layout, whose stat may
\* itself fail), or a file (which may fail to open, and whose archive
\* lookups and seeks each have an outcome).
FsStates ==
    {FsNode("notexist", "absent", "ok", "ok", NoArchive),
     FsNode("staterr", "absent", "ok", "ok", NoArchive),
     FsNode("file", "absent", "ok", "err", NoArchive)}
    \cup {FsNode("dir", c, p, "ok", NoArchive) : c \in {"present", "absent"}, p \in {"ok", "err"}}
    \cup {FsNode("file", "absent", "ok", "ok", [manifest |-> m, layout |-> l, seekErrAt |-> k]) :
            m \in LookupOutcomes, l \in LookupOutcomes, k \in 0..2}

\* docker.GetClient and dockerClient.Ping(ctx) under the 10 second timeout.
DaemonStates ==
    {[client |-> "err", ping |-> "none", apiVersion |-> ""],
     [client |-> "ok", ping |-> "err", apiVersion |-> ""],
     [client |-> "ok", ping |-> "timeout", apiVersion |-> ""],
     [client |-> "ok", ping |-> "ok", apiVersion |-> ""],
     [client |-> "ok", ping |-> "ok", apiVersion |-> "1.41"]}

\* A necessary condition for name.ParseReference to accept a string: it is
\* not empty, starts with a lower-case name and holds no tilde.
MayBeReference(s) ==
    /\ Len(s) > 0
    /\ s[1] \notin {":", "~", "/"}
    /\ \A i \in 1..Len(s) : s[i] # "~" /\ ToLowerToken(s[i]) = s[i]

\* The empty path names nothing: stat reports that it does not exist.
FsStatesAt(s) ==
    IF s = <<>> THEN {FsNode("notexist", "absent", "ok", "ok", NoArchive)} ELSE FsStates

Envs(s) ==
    {[fs |-> f, homeOK |-> h, validRef |-> v, daemon |-> d] :
        f \in FsStatesAt(s), h \in BOOLEAN,
        v \in (IF MayBeReference(s) THEN BOOLEAN ELSE {FALSE}),
        d \in DaemonStates}

NoEnv ==
    [fs |-> FsNode("notexist", "absent", "ok", "ok", NoArchive), homeOK |-> TRUE,
     validRef |-> FALSE, daemon |-> [client |-> "err", ping |-> "none", apiVersion |-> ""]]

\* ------------------------------------------------------------------------
\* detectSourceFromPath
\* ------------------------------------------------------------------------

\* fs.Stat(imgPath): the error it returns.
StatPath(node) ==
    CASE node.kind = "notexist" -> "ENOENT"
      [] node.kind = "staterr" -> "EIO"
      [] OTHER -> NoErr

\* fs.Stat(path.Join(imgPath, "oci-layout")): the error it returns.
StatChild(node) ==
    IF node.probe = "err" THEN "EACCES"
    ELSE IF node.child = "present" THEN NoErr
    ELSE "ENOENT"

\* A test for non-existence that never recognises it.
IsNotExistNever(err) == FALSE

\* os.IsNotExist
IsNotExist(err) == err = "ENOENT"

\* The candidates with oci-layout tried first.
ArchiveCandidatesOciFirst ==
    <<[path |-> "oci-layout", source |-> OciTarballSource],
      [path |-> "manifest.json", source |-> DockerTarballSource]>>

\* The candidates of the archive probe, in the order they are tried.
ArchiveCandidates ==
    <<[path |-> "manifest.json", source |-> DockerTarballSource],
      [path |-> "oci-layout", source |-> OciTarballSource]>>

\* file.ReaderFromTar(archive, path): nil, ErrFileNotFound, or another error.
ReaderFromTar(archive, path) ==
    LET outcome == IF path = "manifest.json" THEN archive.manifest ELSE archive.layout IN
    CASE outcome = "found" -> NoErr
      [] outcome = "notfound" -> "ErrFileNotFound"
      [] OTHER -> "read"

\* The loop over the candidates, from candidate i on.
RECURSIVE ProbeArchive(_, _)
ProbeArchive(archive, i) ==
    IF i > Len(ArchiveCandidates) THEN [source |-> UnknownSource, err |-> NoErr]
    ELSE IF archive.seekErrAt = i THEN [source |-> UnknownSource, err |-> "seek"]
    ELSE LET err == ReaderFromTar(archive, ArchiveCandidates[i].path) IN
         IF err = NoErr THEN [source |-> ArchiveCandidates[i].source, err |-> NoErr]
         ELSE IF err # "ErrFileNotFound" THEN [source |-> UnknownSource, err |-> err]
         ELSE ProbeArchive(archive, i + 1)

\* The directory branch.
ProbeDirectory(node) ==
    IF ~IsNotExist(StatChild(node))
    THEN [source |-> OciDirectorySource, err |-> NoErr]
    ELSE [source |-> UnknownSource, err |-> NoErr]

detectSourceFromPath(env, imgPath) ==
    LET expanded == Expand(imgPath, env.homeOK)
        node == env.fs
    IN  IF expanded.err # NoErr THEN [source |-> UnknownSource, err |-> "expand"]
        ELSE IF IsNotExist(StatPath(node)) THEN [source |-> UnknownSource, err |-> NoErr]
        ELSE IF StatPath(node) # NoErr THEN [source |-> UnknownSource, err |-> "stat"]
        ELSE IF node.kind = "dir" THEN ProbeDirectory(node)
        ELSE IF node.open = "err" THEN [source |-> UnknownSource, err |-> "open"]
        ELSE ProbeArchive(node.archive, 1)

\* ------------------------------------------------------------------------
\* DetermineImagePullSource and detectSource
\* ------------------------------------------------------------------------

isRegistryReference(env, imageSpec) == env.validRef

\* A daemon that answers the ping, whatever API version it reports.
DaemonAccessibleAnyVersion(daemon) ==
    /\ daemon.client = "ok"
    /\ daemon.ping = "ok"

\* The daemon exists and is accessible.
DaemonAccessible(daemon) ==
    /\ daemon.client = "ok"
    /\ daemon.ping = "ok"
    /\ daemon.apiVersion # ""

DetermineImagePullSource(env, userInput) ==
    IF ~isRegistryReference(env, userInput) THEN UnknownSource
    ELSE IF DaemonAccessible(env.daemon) THEN DockerDaemonSource
    ELSE OciRegistrySource

DetectResult(source, location, err) ==
    [source |-> source, location |-> location, err |-> err]

\* The second switch of detectSource, on the source found so far.
ResolveSource(env, userInput, source, location) ==
    IF source \in {OciDirectorySource, OciTarballSource, DockerTarballSource}
    THEN LET expanded == Expand(location, env.homeOK) IN
         IF expanded.err # NoErr THEN DetectResult(UnknownSource, <<>>, "expand")
         ELSE DetectResult(source, expanded.path, NoErr)
    ELSE IF source = UnknownSource
    THEN LET imagePullSource == DetermineImagePullSource(env, userInput) IN
         IF imagePullSource # UnknownSource
         THEN DetectResult(imagePullSource, userInput, NoErr)
         ELSE DetectResult(source, <<>>, NoErr)
    ELSE DetectResult(source, location, NoErr)

detectSource(env, userInput) ==
    LET candidates == SplitN2(userInput, SchemeSeparator) IN
    IF Len(candidates) = 1
    THEN LET probed == detectSourceFromPath(env, userInput) IN
         IF probed.err # NoErr THEN DetectResult(UnknownSource, <<>>, probed.err)
         ELSE ResolveSource(env, userInput, probed.source, userInput)
    ELSE LET sourceHint == candidates[1]
             location == TrimPrefix(userInput, sourceHint \o <<SchemeSeparator>>)
             source == ParseSourceScheme(sourceHint)
         IN  ResolveSource(env, userInput, source, location)


\* ------------------------------------------------------------------------
\* package docker: DaemonImageProvider
\* ------------------------------------------------------------------------

\* Longest pull response, in decoded events.
MaxEvents == 2

\* Largest image the daemon saves, in blocks copied.
MaxBytes == 2

ImageMeta(tags, digests) == [tags |-> tags, digests |-> digests]

\* The zero value of types.ImageInspect.
ZeroInspect == ImageMeta(<<>>, <<>>)

\* What the daemon may report about an image it holds.
ImageMetas ==
    {ImageMeta(t, d) : t \in {<<>>, <<"img:latest">>}, d \in {<<>>, <<"img@sha256">>}}

\* An image that was just pulled by reference carries that reference.
PulledMetas == ImageMetas \ {ZeroInspect}

\* What the daemon holds for the reference: nothing, or an image.
NoImage == [held |-> FALSE, meta |-> ZeroInspect]

HeldImage(meta) == [held |-> TRUE, meta |-> meta]

\* The nil *pullEvent, and a decoded one.
NilEvent == [nil |-> TRUE, Status |-> <<>>]

PullEvent(status) == [nil |-> FALSE, Status |-> status]

\* NewProviderFromTarball was not called.
NoHandoff == [called |-> FALSE, path |-> "", tags |-> <<>>, digests |-> <<>>]

\* Status texts of pull events, as token sequences.
Statuses ==
    {<<>>, <<"Pulling">>, <<"Digest:", "sha256">>, <<"Status:", "Downloaded">>,
     <<"digest:", "sha256">>, <<"Pulling", "Status:">>}

\* One JSON object of the pull response: its "status" member may be missing.
StreamItems ==
    {[hasStatus |-> TRUE, status |-> s] : s \in Statuses}
    \cup {[hasStatus |-> FALSE, status |-> <<>>]}

\* json.Decoder.Decode(&thePullEvent): the first object allocates the event,
\* later objects are decoded into the same event, so a member the object
\* does not hold keeps the value it had.
Decode(event, item) ==
    IF item.hasStatus THEN PullEvent(item.status)
    ELSE IF event.nil THEN PullEvent(<<>>)
    ELSE event

\* A check that knows only the "Digest:" line.
IsSummaryEventDigestOnly(status) == HasPrefix(status, <<"Digest:">>)

\* The check for the last two events of a pull.
IsSummaryEvent(status) ==
    HasPrefix(status, <<"Digest:">>) \/ HasPrefix(status, <<"Status:">>)

\* A classification that takes every error for not-found.
IsErrNotFoundAnyError(err) == err # NoErr

\* client.IsErrNotFound
IsErrNotFound(err) == err = "notfound"

\* The first stage label mistaken for the second.
StageRequestingSwapped == "saving image to disk"

\* The values written to stage.Current.
StageRequesting == "requesting image from Docker"

StageSaving == "saving image to disk"

\* A test for an empty save that no byte count meets.
IsEmptyCopyNegative(nBytes) == nBytes < 0

\* The test for an empty save.
IsEmptyCopy(nBytes) == nBytes = 0

\* dockerClient.ImageInspectWithRaw: the errors it may return for an image.
InspectErrors(image) ==
    IF ~image.held THEN {"notfound", "daemon"} ELSE {NoErr, "daemon"}

\* ------------------------------------------------------------------------
\* State
\* ------------------------------------------------------------------------

VARIABLES
    userInput,         \* the string handed to the detection
    env,               \* the environment the detection ran in
    called,            \* "none", "detectSource" or "detectSourceFromPath"
    result,            \* what the call returned
    pc,                \* where Provide is
    daemonImage,       \* what the daemon holds for the reference
    inspectResult,     \* Provide's inspectResult
    inspectErr,        \* the error of Provide's inspection ("" before it)
    pullCalls,         \* how many times pull was invoked
    pullEnd,           \* how pull ended: "none", or the error it returned
    streamEnd,         \* how the pull response ended: "none", "EOF" or "garbage"
    thePullEvent,      \* pull's thePullEvent
    decoded,           \* the status of every event decoded so far, in order
    forwarded,         \* the calls of status.onEvent: the event's number and status
    statusComplete,    \* status.complete
    published,         \* the event types handed to bus.Publish, in order
    daemonOps,         \* the daemon operations requested, in order
    stage,             \* stage.Current
    stageWrites,       \* every value assigned to stage.Current, in order
    estimateCompleted, \* estimateSaveProgress was marked complete
    fileBytes,         \* blocks written to the archive file
    copyProgress,      \* blocks counted by copyProgress
    copyErr,           \* the error io.Copy returned ("" before it returns)
    handoff,           \* the arguments NewProviderFromTarball was called with
    provideErr         \* "running", or the error Provide returned

dvars == <<userInput, env, called, result>>

pvars == <<pc, daemonImage, inspectResult, inspectErr, pullCalls, pullEnd, streamEnd,
           thePullEvent, decoded, forwarded, statusComplete, published, daemonOps, stage,
           stageWrites, estimateCompleted, fileBytes, copyProgress, copyErr, handoff,
           provideErr>>

vars == <<dvars, pvars>>

NoResult == DetectResult(UnknownSource, <<>>, NoErr)

\* No detection has been asked for.
DetectIdle ==
    /\ env = NoEnv
    /\ called = "none"
    /\ result = NoResult

\* Provide has not been called; held is what the daemon holds.
ProvideIdle(held) ==
    /\ pc = "NewTempDir"
    /\ daemonImage = held
    /\ inspectResult = ZeroInspect
    /\ inspectErr = ""
    /\ pullCalls = 0
    /\ pullEnd = "none"
    /\ streamEnd = "none"
    /\ thePullEvent = NilEvent
    /\ decoded = <<>>
    /\ forwarded = <<>>
    /\ statusComplete = FALSE
    /\ published = <<>>
    /\ daemonOps = <<>>
    /\ stage = ""
    /\ stageWrites = <<>>
    /\ estimateCompleted = FALSE
    /\ fileBytes = 0
    /\ copyProgress = 0
    /\ copyErr = ""
    /\ handoff = NoHandoff
    /\ provideErr = "running"

InitDetect ==
    /\ userInput \in Inputs
    /\ DetectIdle
    /\ ProvideIdle(NoImage)

InitProvide ==
    /\ userInput = <<>>
    /\ DetectIdle
    /\ \E held \in {HeldImage(m) : m \in ImageMetas} \cup {NoImage} : ProvideIdle(held)

\* ------------------------------------------------------------------------
\* Detection
\* ------------------------------------------------------------------------

\* detectSource(fs, userInput)
DetectSource ==
    /\ called = "none"
    /\ \E e \in Envs(userInput) :
        /\ env' = e
        /\ result' = detectSource(e, userInput)
    /\ called' = "detectSource"
    /\ UNCHANGED <<userInput, pvars>>

\* detectSourceFromPath(fs, imgPath)
DetectSourceFromPath ==
    /\ called = "none"
    /\ \E e \in Envs(userInput) :
        /\ env' = e
        /\ LET r == detectSourceFromPath(e, userInput) IN
           result' = DetectResult(r.source, <<>>, r.err)
    /\ called' = "detectSourceFromPath"
    /\ UNCHANGED <<userInput, pvars>>

NextDetect == DetectSource

SpecDetect == InitDetect /\ [][NextDetect]_vars

NextPath == DetectSourceFromPath

SpecPath == InitDetect /\ [][NextPath]_vars

\* ------------------------------------------------------------------------
\* Provide
\* ------------------------------------------------------------------------

\* Provide returns err.
Return(err) ==
    /\ pc' = "done"
    /\ provideErr' = err

\* p.tmpDirGen.NewTempDir()
NewTempDir ==
    /\ pc = "NewTempDir"
    /\ \/ pc' = "CreateFile" /\ UNCHANGED provideErr
       \/ Return("tempdir")
    /\ UNCHANGED <<dvars, daemonImage, inspectResult, inspectErr, pullCalls, pullEnd, streamEnd,
                   thePullEvent, decoded, forwarded, statusComplete, published, daemonOps,
                   stage, stageWrites, estimateCompleted, fileBytes, copyProgress, copyErr, handoff>>

\* os.Create(path.Join(imageTempDir, "image.tar"))
CreateFile ==
    /\ pc = "CreateFile"
    /\ \/ pc' = "GetClient" /\ UNCHANGED provideErr
       \/ Return("unable to create temp file for image")
    /\ UNCHANGED <<dvars, daemonImage, inspectResult, inspectErr, pullCalls, pullEnd, streamEnd,
                   thePullEvent, decoded, forwarded, statusComplete, published, daemonOps,
                   stage, stageWrites, estimateCompleted, fileBytes, copyProgress, copyErr, handoff>>

\* docker.GetClient()
GetClient ==
    /\ pc = "GetClient"
    /\ \/ pc' = "Inspect" /\ UNCHANGED provideErr
       \/ Return("unable to create a docker client")
    /\ UNCHANGED <<dvars, daemonImage, inspectResult, inspectErr, pullCalls, pullEnd, streamEnd,
                   thePullEvent, decoded, forwarded, statusComplete, published, daemonOps,
                   stage, stageWrites, estimateCompleted, fileBytes, copyProgress, copyErr, handoff>>

\* Check if the image exists locally, and decide whether to pull.
Inspect ==
    /\ pc = "Inspect"
    /\ daemonOps' = Append(daemonOps, "ImageInspect")
    /\ \E err \in InspectErrors(daemonImage) :
        /\ inspectErr' = err
        /\ inspectResult' = IF err = NoErr THEN daemonImage.meta ELSE ZeroInspect
        /\ IF err = NoErr THEN pc' = "Track" /\ UNCHANGED provideErr
           ELSE IF IsErrNotFound(err) THEN pc' = "Pull" /\ UNCHANGED provideErr
           ELSE Return("unable to inspect existing image")
    /\ UNCHANGED <<dvars, daemonImage, pullCalls, pullEnd, streamEnd, thePullEvent, decoded, forwarded,
                   statusComplete, published, stage, stageWrites, estimateCompleted,
                   fileBytes, copyProgress, copyErr, handoff>>

\* pull, with its status record made, returns err to Provide, which returns
\* it; status.complete is set on the way out.
PullFails(err) ==
    /\ pullEnd' = err
    /\ statusComplete' = TRUE
    /\ Return(err)

\* pull, up to the response of dockerClient.ImagePull: the docker config is
\* loaded, the pull event is published, and the client, the pull options
\* and the pull request each have to succeed.
PullBegin ==
    /\ pc = "Pull"
    /\ pullCalls' = pullCalls + 1
    /\ \/ /\ pullEnd' = "failed to load docker config"
          /\ Return("failed to load docker config")
          /\ UNCHANGED <<statusComplete, published, daemonOps>>
       \/ /\ published' = Append(published, "PullDockerImage")
          /\ \/ /\ \E err \in {"failed to load docker client", "pull options"} : PullFails(err)
                /\ UNCHANGED daemonOps
             \/ /\ daemonOps' = Append(daemonOps, "ImagePull")
                /\ \/ PullFails("pull failed")
                   \/ /\ pc' = "Decode"
                      /\ UNCHANGED <<pullEnd, streamEnd, statusComplete, provideErr>>
    /\ UNCHANGED <<dvars, daemonImage, inspectResult, inspectErr, streamEnd, thePullEvent,
                   decoded, forwarded, stage, stageWrites, estimateCompleted, fileBytes,
                   copyProgress, copyErr, handoff>>

\* One turn of the decode loop on an event of the response.
PullDecode ==
    /\ pc = "Decode"
    /\ Len(decoded) < MaxEvents
    /\ \E item \in StreamItems :
        LET event == Decode(thePullEvent, item) IN
        /\ thePullEvent' = event
        /\ decoded' = Append(decoded, event.Status)
        /\ forwarded' =
              IF IsSummaryEvent(event.Status) THEN forwarded
              ELSE Append(forwarded, [event |-> Len(decoded) + 1, status |-> event.Status])
    /\ UNCHANGED <<dvars, pc, daemonImage, inspectResult, inspectErr, pullCalls, pullEnd, streamEnd,
                   statusComplete, published, daemonOps, stage, stageWrites,
                   estimateCompleted, fileBytes, copyProgress, copyErr, handoff, provideErr>>

\* The decoder reaches the end of the response: pull returns nil. The
\* daemon now holds the image, unless the pull failed on its side (an error
\* the response reports in an event is not looked at).
PullEOF ==
    /\ pc = "Decode"
    /\ streamEnd' = "EOF"
    /\ pullEnd' = NoErr
    /\ statusComplete' = TRUE
    /\ daemonImage' \in {HeldImage(m) : m \in PulledMetas} \cup {daemonImage}
    /\ pc' = "Track"
    /\ UNCHANGED <<dvars, inspectResult, inspectErr, pullCalls, thePullEvent, decoded,
                   forwarded, published, daemonOps, stage, stageWrites, estimateCompleted,
                   fileBytes, copyProgress, copyErr, handoff, provideErr>>

\* The decoder fails on something that is not the end of the response.
PullDecodeError ==
    /\ pc = "Decode"
    /\ streamEnd' = "garbage"
    /\ PullFails("failed to pull image")
    /\ UNCHANGED <<dvars, daemonImage, inspectResult, inspectErr, pullCalls, thePullEvent,
                   decoded, forwarded, published, daemonOps, stage, stageWrites,
                   estimateCompleted, fileBytes, copyProgress, copyErr, handoff>>

\* p.trackSaveProgress(): a client, a second inspection for the size, and
\* the fetch event with the new stage.
TrackSaveProgress ==
    /\ pc = "Track"
    /\ \/ /\ Return("unable to trace image save progress")
          /\ UNCHANGED <<daemonOps, published>>
       \/ /\ daemonOps' = Append(daemonOps, "ImageInspect")
          /\ \E err \in InspectErrors(daemonImage) :
                IF err # NoErr
                THEN /\ Return("unable to trace image save progress")
                     /\ UNCHANGED published
                ELSE /\ published' = Append(published, "FetchImage")
                     /\ pc' = "RequestSave"
                     /\ UNCHANGED provideErr
    /\ UNCHANGED <<dvars, daemonImage, inspectResult, inspectErr, pullCalls, pullEnd, streamEnd,
                   thePullEvent, decoded, forwarded, statusComplete, stage, stageWrites,
                   estimateCompleted, fileBytes, copyProgress, copyErr, handoff>>

\* stage.Current = "requesting image from Docker", and the save is requested.
RequestSave ==
    /\ pc = "RequestSave"
    /\ stage' = StageRequesting
    /\ stageWrites' = Append(stageWrites, StageRequesting)
    /\ daemonOps' = Append(daemonOps, "ImageSave")
    /\ pc' = "ImageSave"
    /\ UNCHANGED <<dvars, daemonImage, inspectResult, inspectErr, pullCalls, pullEnd, streamEnd,
                   thePullEvent, decoded, forwarded, statusComplete, published,
                   estimateCompleted, fileBytes, copyProgress, copyErr, handoff, provideErr>>

\* dockerClient.ImageSave returns: on a stream, the estimate is completed
\* and stage.Current = "saving image to disk".
ImageSave ==
    /\ pc = "ImageSave"
    /\ \/ /\ Return("unable to save image tar")
          /\ UNCHANGED <<estimateCompleted, stage, stageWrites>>
       \/ /\ estimateCompleted' = TRUE
          /\ stage' = StageSaving
          /\ stageWrites' = Append(stageWrites, StageSaving)
          /\ pc' = "Copy"
          /\ UNCHANGED provideErr
    /\ UNCHANGED <<dvars, daemonImage, inspectResult, inspectErr, pullCalls, pullEnd, streamEnd,
                   thePullEvent, decoded, forwarded, statusComplete, published, daemonOps,
                   fileBytes, copyProgress, copyErr, handoff>>

\* io.Copy moves one block of the save stream to the file and to the
\* progress writer.
CopyBlock ==
    /\ pc = "Copy"
    /\ fileBytes < MaxBytes
    /\ fileBytes' = fileBytes + 1
    /\ copyProgress' = copyProgress + 1
    /\ UNCHANGED <<dvars, pc, daemonImage, inspectResult, inspectErr, pullCalls, pullEnd, streamEnd,
                   thePullEvent, decoded, forwarded, statusComplete, published, daemonOps,
                   stage, stageWrites, estimateCompleted, copyErr,
                   handoff, provideErr>>

\* io.Copy returns (nBytes, err): a copy error, an empty image, or the
\* handoff to the tarball provider, whose result is Provide's.
CopyEnd ==
    /\ pc = "Copy"
    /\ LET nBytes == fileBytes IN
       \/ /\ copyErr' = "copy"
          /\ Return("unable to save image to tar")
          /\ UNCHANGED handoff
       \/ /\ copyErr' = NoErr
          /\ IF IsEmptyCopy(nBytes)
             THEN /\ Return("cannot provide an empty image")
                  /\ UNCHANGED handoff
             ELSE /\ handoff' = [called |-> TRUE, path |-> "image.tar",
                                 tags |-> inspectResult.tags,
                                 digests |-> inspectResult.digests]
                  /\ \E err \in {NoErr, "tarball provider"} : Return(err)
    /\ UNCHANGED <<dvars, daemonImage, inspectResult, inspectErr, pullCalls, pullEnd, streamEnd,
                   thePullEvent, decoded, forwarded, statusComplete, published, daemonOps,
                   stage, stageWrites, estimateCompleted, fileBytes, copyProgress>>

NextProvide ==
    \/ NewTempDir
    \/ CreateFile
    \/ GetClient
    \/ Inspect
    \/ PullBegin
    \/ PullDecode
    \/ PullEOF
    \/ PullDecodeError
    \/ TrackSaveProgress
    \/ RequestSave
    \/ ImageSave
    \/ CopyBlock
    \/ CopyEnd

SpecProvide == InitProvide /\ [][NextProvide]_vars

\* ------------------------------------------------------------------------
\* Properties of the detection
\* ------------------------------------------------------------------------

HasSeparator(s) == \E i \in 1..Len(s) : s[i] = ":"

\* The token or tokens left of the first separator.
HintOf(s) == SplitN2(s, ":")[1]

\* The input carries a separator and its left part is no scheme.
UnrecognizedHint(s) ==
    /\ HasSeparator(s)
    /\ ParseSourceScheme(HintOf(s)) = UnknownSource

\* The path the input names exists nowhere: the home directory shorthand,
\* if any, expands, and stat reports that nothing is there.
PathAbsent(e, s) ==
    /\ Expand(s, e.homeOK).err = NoErr
    /\ e.fs.kind = "notexist"

\* What the registry-reference probe alone answers for s.
ReferenceProbe(e, s) ==
    IF ~e.validRef THEN DetectResult(UnknownSource, <<>>, NoErr)
    ELSE IF e.daemon.client = "ok" /\ e.daemon.ping = "ok" /\ e.daemon.apiVersion # ""
    THEN DetectResult(DockerDaemonSource, s, NoErr)
    ELSE DetectResult(OciRegistrySource, s, NoErr)

\* What a string s without any hint gets: the filesystem probe on s as a
\* path and, only if that is inconclusive, the registry-reference probe.
HintlessResult(e, s) ==
    LET probed == detectSourceFromPath(e, s) IN
    IF probed.err # NoErr THEN DetectResult(UnknownSource, <<>>, probed.err)
    ELSE IF probed.source # UnknownSource THEN ResolveSource(e, s, probed.source, s)
    ELSE ReferenceProbe(e, s)

\* C1: an input whose left-hand token is no scheme gets from detectSource
\* exactly the (source, location, error) that the no-hint procedure
\* (filesystem probe on the whole string, then the registry-reference
\* probe) gives in the same filesystem and daemon state.
C1_UnrecognizedHintAsNoHint ==
    (called = "detectSource" /\ UnrecognizedHint(userInput))
        => result = HintlessResult(env, userInput)

\* The filesystem probe, where detectSource runs it, settles nothing.
ProbeInconclusive(e, s) ==
    ~HasSeparator(s) => detectSourceFromPath(e, s) = [source |-> UnknownSource, err |-> NoErr]

NoRecognizedHint(s) == ~HasSeparator(s) \/ UnrecognizedHint(s)

\* C2: for a bare string that parses as a weakly-valid reference,
\* detectSource returns DockerDaemon exactly when a client is obtained and
\* the ping succeeds in time with a non-empty API version, and OciRegistry
\* in every other case; the location is the whole input and the error nil.
C2_BareReferencePullSource ==
    (/\ called = "detectSource"
     /\ NoRecognizedHint(userInput)
     /\ ProbeInconclusive(env, userInput)
     /\ env.validRef)
        => /\ result.source \in {DockerDaemonSource, OciRegistrySource}
           /\ result.source = DockerDaemonSource
                <=> (/\ env.daemon.client = "ok"
                     /\ env.daemon.ping = "ok"
                     /\ env.daemon.apiVersion # "")
           /\ result.location = userInput
           /\ result.err = NoErr

\* A bare reference was sent to the daemon that answered the ping.
C2_Witness ==
    /\ called = "detectSource"
    /\ ~HasSeparator(userInput)
    /\ env.validRef
    /\ env.fs.kind = "dir"
    /\ env.daemon.apiVersion # ""
    /\ result = DetectResult(DockerDaemonSource, userInput, NoErr)

\* C3, as stated: for an input naming a path that does not exist,
\* detectSource returns Unknown, an empty location and a nil error.
C3_AbsentPathIsUnknown ==
    (called = "detectSource" /\ PathAbsent(env, userInput))
        => result = DetectResult(UnknownSource, <<>>, NoErr)

\* C3, amended: for an input naming a path that does not exist,
\* detectSourceFromPath returns Unknown with a nil error, and detectSource
\* on such an input without separator returns (Unknown, "", nil) when the
\* input is no weakly-valid reference and otherwise DockerDaemon or
\* OciRegistry with the whole input as location; the error is nil.
C3_AbsentPathIsNoError ==
    (called = "detectSource" /\ PathAbsent(env, userInput))
        => /\ detectSourceFromPath(env, userInput) = [source |-> UnknownSource, err |-> NoErr]
           /\ ~HasSeparator(userInput)
                => /\ result.err = NoErr
                   /\ ~env.validRef => result = DetectResult(UnknownSource, <<>>, NoErr)
                   /\ env.validRef
                        => /\ result.source \in {DockerDaemonSource, OciRegistrySource}
                           /\ result.location = userInput

\* A path that does not exist and is no reference was detected as Unknown.
C3_Witness ==
    /\ called = "detectSource"
    /\ userInput = <<"/", "bogus">>
    /\ PathAbsent(env, userInput)
    /\ result = DetectResult(UnknownSource, <<>>, NoErr)

\* The path names an existing directory.
IsDirectory(e, s) ==
    /\ Expand(s, e.homeOK).err = NoErr
    /\ e.fs.kind = "dir"

\* C7: for an existing directory, detectSourceFromPath returns OciDirectory
\* exactly when the directory has a child oci-layout, and a directory
\* without it yields Unknown with a nil error whatever the outcome of the
\* probe for the child.
C7_DirectoryIffLayout ==
    (called = "detectSourceFromPath" /\ IsDirectory(env, userInput))
        => /\ result.source = OciDirectorySource <=> env.fs.child = "present"
           /\ env.fs.child = "absent"
                => (result.source = UnknownSource /\ result.err = NoErr)

\* The path names a file that opens and whose archive can be rewound.
IsReadableArchive(e, s) ==
    /\ Expand(s, e.homeOK).err = NoErr
    /\ e.fs.kind = "file"
    /\ e.fs.open = "ok"
    /\ e.fs.archive.seekErrAt = 0

\* C8: for a file readable as an archive, detectSourceFromPath answers
\* DockerTarball if manifest.json is found (with or without oci-layout),
\* else OciTarball if oci-layout is found, else Unknown with a nil error;
\* a read error other than not-found on either lookup ends the probe with
\* that error.
C8_ArchivePrecedence ==
    (called = "detectSourceFromPath" /\ IsReadableArchive(env, userInput))
        => LET a == env.fs.archive IN
           /\ a.manifest = "found"
                => (result.source = DockerTarballSource /\ result.err = NoErr)
           /\ (a.manifest = "notfound" /\ a.layout = "found")
                => (result.source = OciTarballSource /\ result.err = NoErr)
           /\ (a.manifest = "notfound" /\ a.layout = "notfound")
                => (result.source = UnknownSource /\ result.err = NoErr)
           /\ (a.manifest = "err" \/ (a.manifest = "notfound" /\ a.layout = "err"))
                => (result.source = UnknownSource /\ result.err = "read")

\* An archive holding both members was classified as a docker tarball.
C8_Witness ==
    /\ called = "detectSourceFromPath"
    /\ IsReadableArchive(env, userInput)
    /\ env.fs.archive.manifest = "found"
    /\ env.fs.archive.layout = "found"
    /\ result.source = DockerTarballSource

\* ------------------------------------------------------------------------
\* Properties of Provide
\* ------------------------------------------------------------------------

\* How often op was requested from the daemon.
OpCount(op) == Cardinality({i \in 1..Len(daemonOps) : daemonOps[i] = op})

\* C4: when the copy of the save stream moves zero bytes and ends without a
\* copy error, Provide fails with "cannot provide an empty image", and a
\* run whose copy moved zero bytes never hands off to the archive provider.
C4_EmptyImageFails ==
    /\ (copyErr = NoErr /\ fileBytes = 0)
            => (pc = "done" /\ provideErr = "cannot provide an empty image")
    /\ (copyErr # "" /\ fileBytes = 0) => ~handoff.called

\* The stream ended cleanly after zero bytes and Provide failed.
C4_Witness ==
    /\ copyErr = NoErr
    /\ fileBytes = 0
    /\ copyProgress = 0
    /\ provideErr = "cannot provide an empty image"

\* C5: the stage label only moves (unset) -> "requesting image from Docker"
\* -> "saving image to disk": every write is the next one of that
\* sequence, a run that reaches the copy has made both, and no exit of
\* Provide leaves any other value.
C5_StageOrder ==
    /\ stageWrites \in {<<>>,
                        <<"requesting image from Docker">>,
                        <<"requesting image from Docker", "saving image to disk">>}
    /\ stage = IF stageWrites = <<>> THEN "" ELSE stageWrites[Len(stageWrites)]
    /\ (pc = "Copy" \/ copyErr # "") => Len(stageWrites) = 2
    /\ (pc \in {"NewTempDir", "CreateFile", "GetClient", "Inspect", "Pull", "Decode",
                "Track", "RequestSave"}) => stageWrites = <<>>

\* The copy ended and the stage had moved twice.
C5_Witness ==
    /\ pc = "done"
    /\ copyErr # ""
    /\ stage = "saving image to disk"
    /\ Len(stageWrites) = 2

\* The status text begins with "Digest:" or with "Status:".
BeginsWithSummary(status) ==
    Len(status) > 0 /\ status[1] \in {"Digest:", "Status:"}

\* The events handed to status.onEvent, by their number in the response.
ForwardedEvents == {forwarded[i].event : i \in 1..Len(forwarded)}

\* C6: a decoded event is forwarded to status.onEvent exactly when its
\* status begins with neither "Digest:" nor "Status:", forwarded events
\* keep the order of the response, the end of the response makes pull
\* succeed, any other decode error makes pull (and Provide) fail, and once
\* the response has ended nothing more is forwarded.
C6_PullState ==
    /\ \A k \in 1..Len(decoded) : k \in ForwardedEvents <=> ~BeginsWithSummary(decoded[k])
    /\ \A i \in 1..Len(forwarded) :
        /\ forwarded[i].event \in 1..Len(decoded)
        /\ forwarded[i].status = decoded[forwarded[i].event]
        /\ \A j \in 1..(i - 1) : forwarded[j].event < forwarded[i].event
    /\ streamEnd = "EOF" => (pullEnd = NoErr /\ provideErr # "failed to pull image")
    /\ streamEnd = "garbage"
        => (pullEnd = "failed to pull image" /\ provideErr = "failed to pull image")

\* C6, over behaviours: the state of the pull is always as C6 says, and no
\* step forwards an event once the response has ended.
C6_PullForwarding ==
    /\ []C6_PullState
    /\ [][streamEnd # "none" => forwarded' = forwarded]_vars

\* A response with a dropped and a forwarded event ended cleanly.
C6_Witness ==
    /\ streamEnd = "EOF"
    /\ Len(decoded) = 2
    /\ Len(forwarded) = 1
    /\ pullEnd = NoErr

\* C9: on a successful run of Provide the tags and digests handed to the
\* archive provider are those the daemon reports for the saved image.
C9_HandoffCarriesImageTags ==
    (pc = "done" /\ provideErr = NoErr)
        => /\ handoff.called
           /\ handoff.tags = daemonImage.meta.tags
           /\ handoff.digests = daemonImage.meta.digests

PullErrors ==
    {"failed to load docker config", "failed to load docker client", "pull options",
     "pull failed", "failed to pull image"}

\* C10: pull runs at most once and only after the first inspection failed
\* with not-found; any other inspection error and any pull error end
\* Provide at once, with no save request, no fetch event, no stage change
\* and no handoff; no daemon operation is requested again.
C10_PullOnceNoRetry ==
    /\ pullCalls <= 1
    /\ pullCalls = 1 => (inspectErr = "notfound" /\ daemonOps[1] = "ImageInspect")
    /\ OpCount("ImagePull") <= pullCalls
    /\ OpCount("ImageSave") <= 1
    /\ OpCount("ImageInspect") <= 2
    /\ (inspectErr \notin {"", NoErr, "notfound"} \/ pullEnd \in PullErrors)
        => /\ pc = "done"
           /\ provideErr \in PullErrors \cup {"unable to inspect existing image"}
           /\ OpCount("ImageSave") = 0
           /\ \A i \in 1..Len(published) : published[i] # "FetchImage"
           /\ stageWrites = <<>> /\ stage = ""
           /\ ~handoff.called

\* A pull that followed a not-found inspection failed and ended Provide.
C10_Witness ==
    /\ pullCalls = 1
    /\ inspectErr = "notfound"
    /\ pullEnd = "pull failed"
    /\ pc = "done"

=============================================================================
